---------------------------- MODULE Spec2Model ----------------------------
(***************************************************************************)
(* Model of src/agent.py: the JunoMonteraRealEstateAgent pipelines         *)
(* (find_properties, get_location_trends) and the Streamlit entry point    *)
(* (main, initialize_agent) with its session state.                        *)
(*                                                                         *)
(* Strings that the code builds are sequences of tokens: every character   *)
(* that comes from the city is a one-character token, the fixed text of a  *)
(* template is cut into tokens at the places the claims look at ("/" and   *)
(* "*" of a trailing wildcard are tokens of their own).  Python dicts are  *)
(* functions whose DOMAIN is the set of keys present.                      *)
(***************************************************************************)
EXTENDS Naturals, Sequences, FiniteSets, TLC

VARIABLES
    session_state,   \* st.session_state: function from the keys present to their values
    widgets,         \* sidebar/button values of the latest rerun of main
    args,            \* search parameters of the latest invocation
    extract_reply,   \* what FirecrawlApp.extract does in the latest invocation
    run_reply,       \* what Agent.run does in the latest invocation
    op,              \* the operation that ran last
    out,             \* what that operation did: external calls, locals, return/raise
    shown            \* what main rendered in the latest rerun

vars == <<session_state, widgets, args, extract_reply, run_reply, op, out, shown>>

---------------------------------------------------------------------------
(* Bounds of the model *)

MaxCityLen == 2
MaxRecords == 2

Alphabet == {"M", "u", "/", "*"}
UpperChars == {"M"}
Cities == UNION {[1..n -> Alphabet] : n \in 0..MaxCityLen}

RecordIds == {"r1", "r2"}
RecordLists == UNION {[1..n -> RecordIds] : n \in 0..MaxRecords}

MaxPrices == {5}
Categories == {"Residential", "Commercial"}
PropertyTypes == {"Flat", "Individual House"}
ModelIds == {"o3-mini", "gpt-4o"}
KeyInputs == {"", "key-a", "key-b"}

---------------------------------------------------------------------------
(* Python values *)

EmptyDict == [k \in {} |-> ""]

\* d[k] = v on a dict
Put(d, k, v) == [x \in (DOMAIN d) \cup {k} |-> IF x = k THEN v ELSE d[x]]

\* dict.get(k, default)
DictGet(d, k, default) == IF k \in DOMAIN d THEN d[k] ELSE default

\* bool(v) of the literals a success field is drawn from
Truthy(v) == v \notin {"False", "None", "0"}

SuccessValues == {"True", "False", "None", "1"}

\* str.lower() of one character
LowerChar(c) == IF c = "M" THEN "m" ELSE c

\* str.lower()
LowerMutant(s) == s
lower(s) == [i \in DOMAIN s |-> LowerChar(s[i])]

\* the payloads a 'data' field is drawn from
Payloads ==
    {EmptyDict}
    \cup {[properties |-> l] : l \in RecordLists}
    \cup {[locations |-> l] : l \in RecordLists}

\* the mappings the extraction backend may answer with
Dicts ==
    {EmptyDict}
    \cup {[success |-> s] : s \in SuccessValues}
    \cup {[data |-> p] : p \in {[properties |-> <<"r1">>], [locations |-> <<"r1">>]}}
    \cup {[success |-> s, data |-> p] : s \in SuccessValues, p \in Payloads}

\* outcomes of FirecrawlApp.extract: it raises, or returns a non-mapping or a mapping
ExtractReplies ==
    {[kind |-> "raise", d |-> EmptyDict], [kind |-> "nondict", d |-> EmptyDict]}
    \cup {[kind |-> "dict", d |-> x] : x \in Dicts}

\* outcomes of Agent.run: it raises, or returns a response with .content
RunReplies ==
    {[raises |-> TRUE, content |-> ""],
     [raises |-> FALSE, content |-> "analysis-1"],
     [raises |-> FALSE, content |-> "analysis-2"]}

---------------------------------------------------------------------------
(* class JunoMonteraRealEstateAgent *)

\* __init__: the summarizer handle and the extraction client, each with its credential
JunoMonteraRealEstateAgent(firecrawl_api_key, openai_api_key, model_id) ==
    [agent |-> [model |-> [id |-> model_id, api_key |-> openai_api_key]],
     firecrawl |-> [api_key |-> firecrawl_api_key]]

\* the outcome of an operation that has made no call yet
NoOutcome ==
    [calls |-> <<>>, locals |-> EmptyDict, raised |-> "", returned |-> FALSE, value |-> ""]

\* the discriminator of both methods: a mapping with a truthy 'success'
IsSuccessMutant(raw_response) ==
    raw_response.kind = "dict" /\ "success" \in DOMAIN raw_response.d
IsSuccess(raw_response) ==
    raw_response.kind = "dict" /\ Truthy(DictGet(raw_response.d, "success", "None"))

\* the three listing-site patterns of find_properties
property_urls_mutant(city) ==
    LET formatted_location == lower(city) IN
    << <<"https://www.squareyards.com/sale/property-for-sale-in-">>
           \o formatted_location \o <<"/", "*">>,
       <<"https://www.99acres.com/property-in-">>
           \o formatted_location \o <<"-ffid">>,
       <<"https://housing.com/in/buy", "/">>
           \o formatted_location \o <<"/">> \o formatted_location >>
property_urls(city) ==
    LET formatted_location == lower(city) IN
    << <<"https://www.squareyards.com/sale/property-for-sale-in-">>
           \o formatted_location \o <<"/", "*">>,
       <<"https://www.99acres.com/property-in-">>
           \o formatted_location \o <<"-ffid", "/", "*">>,
       <<"https://housing.com/in/buy", "/">>
           \o formatted_location \o <<"/">> \o formatted_location >>

\* the single trends-page pattern of get_location_trends
trend_urls(city) ==
    << <<"https://www.99acres.com/property-rates-and-price-trends-in-">>
           \o lower(city) \o <<"-prffid", "/", "*">> >>

\* self.firecrawl.extract(urls=..., params=...) of find_properties
property_extract_call(self, city, max_price, property_category, property_type) ==
    LET property_type_prompt ==
            IF property_type = "Flat" THEN "Flats" ELSE "Individual Houses"
    IN  [fn |-> "extract", api_key |-> self.firecrawl.api_key, model |-> "",
         urls |-> property_urls(city),
         prompt |-> [category |-> property_category, type |-> property_type_prompt,
                     max_price |-> max_price, city |-> city],
         schema |-> "PropertiesResponse"]

\* self.firecrawl.extract([...], {...}) of get_location_trends
trend_extract_call(self, city) ==
    [fn |-> "extract", api_key |-> self.firecrawl.api_key, model |-> "",
     urls |-> trend_urls(city),
     prompt |-> [text |-> "price trends for ALL major localities"],
     schema |-> "LocationsResponse"]

\* analysis = self.agent.run(...); return analysis.content   (find_properties)
property_analysis_retry(self, city, max_price, properties, calls, run_rep) ==
    LET call == [fn |-> "run", api_key |-> self.agent.model.api_key,
                 model |-> self.agent.model.id, urls |-> <<>>,
                 prompt |-> [city |-> city, records |-> properties,
                             max_price |-> max_price],
                 schema |-> ""]
        after == [NoOutcome EXCEPT !.calls = Append(Append(calls, call), call),
                                   !.locals = [properties |-> properties]]
    IN  IF run_rep.raises
        THEN [after EXCEPT !.raised = "RunError"]
        ELSE [after EXCEPT !.returned = TRUE, !.value = run_rep.content]
property_analysis(self, city, max_price, properties, calls, run_rep) ==
    LET call == [fn |-> "run", api_key |-> self.agent.model.api_key,
                 model |-> self.agent.model.id, urls |-> <<>>,
                 prompt |-> [city |-> city, records |-> properties,
                             max_price |-> max_price],
                 schema |-> ""]
        after == [NoOutcome EXCEPT !.calls = Append(calls, call),
                                   !.locals = [properties |-> properties]]
    IN  IF run_rep.raises
        THEN [after EXCEPT !.raised = "RunError"]
        ELSE [after EXCEPT !.returned = TRUE, !.value = run_rep.content]

\* analysis = self.agent.run(...); return analysis.content   (get_location_trends)
trend_analysis(self, city, locations, calls, run_rep) ==
    LET call == [fn |-> "run", api_key |-> self.agent.model.api_key,
                 model |-> self.agent.model.id, urls |-> <<>>,
                 prompt |-> [city |-> city, records |-> locations],
                 schema |-> ""]
        after == [NoOutcome EXCEPT !.calls = Append(calls, call),
                                   !.locals = [locations |-> locations]]
    IN  IF run_rep.raises
        THEN [after EXCEPT !.raised = "RunError"]
        ELSE [after EXCEPT !.returned = TRUE, !.value = run_rep.content]

\* properties = raw_response['data'].get('properties', []) if success, else []
\* (a truthy success without 'data' raises KeyError at the subscript)
select_properties_unchecked(raw_response) ==
    IF raw_response.kind = "dict" /\ "data" \in DOMAIN raw_response.d
    THEN [raised |-> "",
          properties |-> DictGet(raw_response.d.data, "properties", <<>>)]
    ELSE [raised |-> "", properties |-> <<>>]
select_properties_reversed(raw_response) ==
    IF IsSuccess(raw_response)
    THEN IF "data" \in DOMAIN raw_response.d
         THEN [raised |-> "",
               properties |-> LET l == DictGet(raw_response.d.data, "properties", <<>>)
                              IN  [i \in DOMAIN l |-> l[Len(l) + 1 - i]]]
         ELSE [raised |-> "KeyError", properties |-> <<>>]
    ELSE [raised |-> "", properties |-> <<>>]
select_properties(raw_response) ==
    IF IsSuccess(raw_response)
    THEN IF "data" \in DOMAIN raw_response.d
         THEN [raised |-> "",
               properties |-> DictGet(raw_response.d.data, "properties", <<>>)]
         ELSE [raised |-> "KeyError", properties |-> <<>>]
    ELSE [raised |-> "", properties |-> <<>>]

find_properties_aborting(self, city, max_price, property_category, property_type, extract_rep, run_rep) ==
    LET calls == <<property_extract_call(self, city, max_price,
                                         property_category, property_type)>>
        sel == select_properties(extract_rep)
    IN  IF extract_rep.kind = "raise"
        THEN [NoOutcome EXCEPT !.calls = calls, !.raised = "ExtractError"]
        ELSE IF sel.raised # ""
        THEN [NoOutcome EXCEPT !.calls = calls, !.raised = sel.raised]
        ELSE IF ~IsSuccess(extract_rep)
        THEN [NoOutcome EXCEPT !.calls = calls, !.returned = TRUE,
                               !.locals = [properties |-> sel.properties],
                               !.value = "No properties available"]
        ELSE property_analysis(self, city, max_price, sel.properties, calls, run_rep)
find_properties(self, city, max_price, property_category, property_type, extract_rep, run_rep) ==
    LET calls == <<property_extract_call(self, city, max_price,
                                         property_category, property_type)>>
        sel == select_properties(extract_rep)
    IN  IF extract_rep.kind = "raise"
        THEN [NoOutcome EXCEPT !.calls = calls, !.raised = "ExtractError"]
        ELSE IF sel.raised # ""
        THEN [NoOutcome EXCEPT !.calls = calls, !.raised = sel.raised]
        ELSE property_analysis(self, city, max_price, sel.properties, calls, run_rep)

get_location_trends_mutant(self, city, extract_rep, run_rep) ==
    LET calls == <<trend_extract_call(self, city)>>
        raw_response == extract_rep
    IN  IF extract_rep.kind = "raise"
        THEN [NoOutcome EXCEPT !.calls = calls, !.raised = "ExtractError"]
        ELSE IF IsSuccess(raw_response)
        THEN IF "data" \notin DOMAIN raw_response.d
             THEN [NoOutcome EXCEPT !.calls = calls, !.raised = "KeyError"]
             ELSE LET locations == DictGet(raw_response.d.data, "locations", <<>>)
                  IN  IF locations = <<>>
                      THEN [NoOutcome EXCEPT !.calls = calls, !.returned = TRUE,
                                             !.locals = [locations |-> locations],
                                             !.value = "No price trends data available"]
                      ELSE trend_analysis(self, city, locations, calls, run_rep)
        ELSE [NoOutcome EXCEPT !.calls = calls, !.returned = TRUE,
                               !.value = "No price trends data available"]
get_location_trends(self, city, extract_rep, run_rep) ==
    LET calls == <<trend_extract_call(self, city)>>
        raw_response == extract_rep
    IN  IF extract_rep.kind = "raise"
        THEN [NoOutcome EXCEPT !.calls = calls, !.raised = "ExtractError"]
        ELSE IF IsSuccess(raw_response)
        THEN IF "data" \notin DOMAIN raw_response.d
             THEN [NoOutcome EXCEPT !.calls = calls, !.raised = "KeyError"]
             ELSE LET locations == DictGet(raw_response.d.data, "locations", <<>>)
                  IN  trend_analysis(self, city, locations, calls, run_rep)
        ELSE [NoOutcome EXCEPT !.calls = calls, !.returned = TRUE,
                               !.value = "No price trends data available"]

---------------------------------------------------------------------------
(* Streamlit entry point *)

\* initialize_agent(): constructs the agent only if the session holds none
initialize_agent_mutant(ss) ==
    Put(ss, "property_agent",
        JunoMonteraRealEstateAgent(ss.firecrawl_key, ss.openai_key, ss.model_id))
initialize_agent(ss) ==
    IF "property_agent" \notin DOMAIN ss
    THEN Put(ss, "property_agent",
             JunoMonteraRealEstateAgent(ss.firecrawl_key, ss.openai_key, ss.model_id))
    ELSE ss

\* the sidebar block of main: model_id is always stored, the keys and the agent
\* only when both key inputs are non-empty
sidebar_mutant(ss, model_id, firecrawl_key, openai_key) ==
    LET ss1 == Put(ss, "model_id", model_id) IN
    IF firecrawl_key # "" \/ openai_key # ""
    THEN initialize_agent(
             Put(Put(ss1, "firecrawl_key", firecrawl_key), "openai_key", openai_key))
    ELSE ss1
sidebar(ss, model_id, firecrawl_key, openai_key) ==
    LET ss1 == Put(ss, "model_id", model_id) IN
    IF firecrawl_key # "" /\ openai_key # ""
    THEN initialize_agent(
             Put(Put(ss1, "firecrawl_key", firecrawl_key), "openai_key", openai_key))
    ELSE ss1

\* values of the search widgets before the page has ever been rendered
DefaultArgs ==
    [city |-> <<>>, max_price |-> 5, property_category |-> "Residential",
     property_type |-> "Flat"]

AllArgs ==
    [city : Cities, max_price : MaxPrices, property_category : Categories,
     property_type : PropertyTypes]

\* the replies recorded for a rerun in which no external call is made
NoExtractReply == [kind |-> "nondict", d |-> EmptyDict]
NoRunReply == [raises |-> FALSE, content |-> ""]

\* inputs of the reruns of main: a few cities and replies are enough for the
\* session layer, which passes them through to find_properties
SessionArgs ==
    {DefaultArgs,
     [city |-> <<"M">>, max_price |-> 5, property_category |-> "Commercial",
      property_type |-> "Individual House"]}
SessionExtractReplies ==
    {[kind |-> "dict", d |-> [success |-> "False"]],
     [kind |-> "dict", d |-> [success |-> "True", data |-> [properties |-> <<"r1">>]]]}
SessionRunReplies ==
    {[raises |-> TRUE, content |-> ""], [raises |-> FALSE, content |-> "analysis-1"]}

\* one script run of main() with the given widget values and backend replies
main(model_id, firecrawl_key, openai_key, clicked, a, extract_rep, run_rep) ==
    LET ss == sidebar(session_state, model_id, firecrawl_key, openai_key) IN
    /\ session_state' = ss
    /\ widgets' = [model_id |-> model_id, firecrawl_key |-> firecrawl_key,
                   openai_key |-> openai_key, clicked |-> clicked]
    /\ op' = "main"
    /\ args' = a
    /\ extract_reply' = extract_rep
    /\ run_reply' = run_rep
    /\ IF "property_agent" \notin DOMAIN ss
       THEN /\ shown' = {"warning"}
            /\ out' = NoOutcome
       ELSE IF clicked
       THEN IF "property_agent" \in DOMAIN ss
            THEN LET result == find_properties(ss.property_agent, a.city, a.max_price,
                                               a.property_category, a.property_type,
                                               extract_rep, run_rep)
                 IN  /\ out' = result
                     /\ shown' = {"page"} \cup (IF result.returned
                                                THEN {"markdown"} ELSE {"exception"})
            ELSE /\ shown' = {"page", "error"}
                 /\ out' = NoOutcome
       ELSE /\ shown' = {"page"}
            /\ out' = NoOutcome

\* a rerun: the sidebar widgets take any value; the search widgets and the button
\* exist only once the page has been rendered, and the backends answer only a click
Rerun ==
    \E model_id \in ModelIds, firecrawl_key \in KeyInputs, openai_key \in KeyInputs,
       clicked \in (IF "page" \in shown THEN BOOLEAN ELSE {FALSE}),
       a \in (IF "page" \in shown THEN SessionArgs ELSE {DefaultArgs}) :
      \E extract_rep \in (IF clicked THEN SessionExtractReplies ELSE {NoExtractReply}),
         run_rep \in (IF clicked THEN SessionRunReplies ELSE {NoRunReply}) :
          main(model_id, firecrawl_key, openai_key, clicked, a, extract_rep, run_rep)

\* the session after the first script run: every widget at its default value
SessionInit ==
    /\ session_state = [model_id |-> "o3-mini"]
    /\ widgets = [model_id |-> "o3-mini", firecrawl_key |-> "", openai_key |-> "",
                  clicked |-> FALSE]
    /\ args = DefaultArgs
    /\ extract_reply = NoExtractReply
    /\ run_reply = NoRunReply
    /\ op = "main"
    /\ out = NoOutcome
    /\ shown = {"warning"}

SessionNext == Rerun

SessionSpec == SessionInit /\ [][SessionNext]_vars

---------------------------------------------------------------------------
(* The two methods called on the agent of a configured session, with the    *)
(* search parameters and the backends' replies drawn from the bounded sets. *)

Init ==
    /\ session_state = sidebar([model_id |-> "o3-mini"], "o3-mini", "key-a", "key-b")
    /\ widgets = [model_id |-> "o3-mini", firecrawl_key |-> "key-a",
                  openai_key |-> "key-b", clicked |-> FALSE]
    /\ args \in AllArgs
    /\ extract_reply \in ExtractReplies
    /\ run_reply \in RunReplies
    /\ op = "none"
    /\ out = NoOutcome
    /\ shown = {"page"}

CallFindProperties ==
    /\ op' = "find_properties"
    /\ out' = find_properties(session_state.property_agent, args.city, args.max_price,
                              args.property_category, args.property_type,
                              extract_reply, run_reply)
    /\ UNCHANGED <<session_state, widgets, args, extract_reply, run_reply, shown>>

CallGetLocationTrends ==
    /\ op' = "get_location_trends"
    /\ out' = get_location_trends(session_state.property_agent, args.city,
                                  extract_reply, run_reply)
    /\ UNCHANGED <<session_state, widgets, args, extract_reply, run_reply, shown>>

Next == CallFindProperties \/ CallGetLocationTrends

Spec == Init /\ [][Next]_vars

---------------------------------------------------------------------------
(* Vocabulary of the properties, stated on the replies and the outcome only *)

InFind == op = "find_properties"
InTrends == op = "get_location_trends"

\* the reply is a mapping whose 'success' is truthy
TruthySuccess ==
    /\ extract_reply.kind = "dict"
    /\ "success" \in DOMAIN extract_reply.d
    /\ extract_reply.d.success \in {"True", "1"}

\* the reply was returned (not raised) and lacks a truthy success indicator
LacksTruthySuccess ==
    \/ extract_reply.kind = "nondict"
    \/ extract_reply.kind = "dict" /\ "success" \notin DOMAIN extract_reply.d
    \/ extract_reply.kind = "dict" /\ extract_reply.d.success \in {"False", "None"}

HasData == extract_reply.kind = "dict" /\ "data" \in DOMAIN extract_reply.d

\* the names of the external calls made, in order
CallFns == [i \in DOMAIN out.calls |-> out.calls[i].fn]

RunCalls == {i \in DOMAIN out.calls : out.calls[i].fn = "run"}
ExtractCalls == {i \in DOMAIN out.calls : out.calls[i].fn = "extract"}

\* the URL list handed to the extraction backend
SentUrls == out.calls[1].urls

EndsWithWildcard(url) ==
    Len(url) >= 2 /\ url[Len(url) - 1] = "/" /\ url[Len(url)] = "*"

Contains(url, part) ==
    \E i \in 0..Len(url) :
        i + Len(part) <= Len(url) /\ SubSeq(url, i + 1, i + Len(part)) = part

\* the city with every upper-case character replaced by its lower-case one
LoweredCity == [i \in DOMAIN args.city |-> IF args.city[i] = "M" THEN "m" ELSE args.city[i]]

---------------------------------------------------------------------------
(* C1 as stated: after a reply that lacks a truthy success indicator, the    *)
(* extraction step of find_properties and of get_location_trends has bound   *)
(* an empty record collection and has not raised.                            *)
C1_AsStated ==
    ((InFind \/ InTrends) /\ LacksTruthySuccess) =>
        /\ out.raised # "KeyError"
        /\ LET name == IF InFind THEN "properties" ELSE "locations"
           IN  name \in DOMAIN out.locals /\ out.locals[name] = <<>>

(* C1 amended: after such a reply find_properties binds the empty list and   *)
(* does not raise at the extraction step; get_location_trends binds no       *)
(* record collection at all, raises nothing, hands no record to the          *)
(* summarizer and returns.                                                   *)
C1_EmptyOnNonSuccess ==
    /\ (InFind /\ LacksTruthySuccess) =>
          /\ out.raised # "KeyError"
          /\ DOMAIN out.locals = {"properties"}
          /\ out.locals.properties = <<>>
    /\ (InTrends /\ LacksTruthySuccess) =>
          /\ out.raised = ""
          /\ DOMAIN out.locals = {}
          /\ RunCalls = {}
          /\ out.returned

C1_Witness ==
    /\ InFind
    /\ extract_reply.kind = "dict"
    /\ extract_reply.d = [success |-> "False", data |-> [properties |-> <<"r1">>]]
    /\ out.locals = [properties |-> <<>>]

(* C2 as stated: every invocation of either operation in which no external   *)
(* call throws makes exactly the calls extract, run.                         *)
C2_AsStated ==
    ((InFind \/ InTrends) /\ out.raised \notin {"ExtractError", "RunError"}) =>
        CallFns = <<"extract", "run">>

(* C2 amended: an invocation of find_properties that returns has made        *)
(* exactly extract then run, whatever the success indicator; one of          *)
(* get_location_trends that returns has made extract then run when the       *)
(* success indicator is truthy and the single extract call otherwise; no     *)
(* invocation makes a call twice, and the extract call always comes first.   *)
C2_LinearPipeline ==
    (InFind \/ InTrends) =>
        /\ (InFind /\ out.returned) => CallFns = <<"extract", "run">>
        /\ (InTrends /\ out.returned /\ TruthySuccess) => CallFns = <<"extract", "run">>
        /\ (InTrends /\ out.returned /\ ~TruthySuccess) => CallFns = <<"extract">>
        /\ Cardinality(ExtractCalls) = 1 /\ Cardinality(RunCalls) <= 1
        /\ out.calls[1].fn = "extract"
        /\ (out.raised = "RunError") => CallFns = <<"extract", "run">>
        /\ (out.raised \in {"ExtractError", "KeyError"}) => CallFns = <<"extract">>

C2_Witness ==
    /\ InTrends
    /\ extract_reply.kind = "dict"
    /\ extract_reply.d = [success |-> "False"]
    /\ out.returned
    /\ CallFns = <<"extract">>

(* C4: after a reply with success false, find_properties calls the           *)
(* summarizer exactly once, with the empty record list in the prompt, and    *)
(* returns the summarizer's text.                                            *)
C4_FalseSuccessStillSummarized ==
    (InFind /\ extract_reply.kind = "dict" /\ "success" \in DOMAIN extract_reply.d
            /\ extract_reply.d.success = "False") =>
        /\ CallFns = <<"extract", "run">>
        /\ out.calls[2].prompt.records = <<>>
        /\ out.raised \in {"", "RunError"}
        /\ ~run_reply.raises => (out.returned /\ out.value = run_reply.content)

C4_Witness ==
    /\ InFind
    /\ extract_reply.kind = "dict"
    /\ extract_reply.d = [success |-> "False"]
    /\ CallFns = <<"extract", "run">>
    /\ out.returned /\ out.value = "analysis-2"

(* C5: after a reply with truthy success and a data mapping,                 *)
(* get_location_trends calls the summarizer exactly once whether or not the  *)
(* payload holds any location; after a reply without truthy success it does  *)
(* not call it.                                                              *)
C5_SummarizerOnSuccessFlagOnly ==
    InTrends =>
        /\ (TruthySuccess /\ HasData) => Cardinality(RunCalls) = 1
        /\ LacksTruthySuccess => RunCalls = {}

C5_Witness ==
    /\ InTrends
    /\ extract_reply.kind = "dict"
    /\ extract_reply.d = [success |-> "True", data |-> [locations |-> <<>>]]
    /\ CallFns = <<"extract", "run">>
    /\ out.calls[2].prompt.records = <<>>
    /\ out.returned

(* C6: find_properties sends exactly 3 URLs and get_location_trends exactly  *)
(* 1; each contains the lower-cased city and no upper-case character.        *)
C6_UrlsLowercased ==
    (InFind \/ InTrends) =>
        /\ Len(SentUrls) = (IF InFind THEN 3 ELSE 1)
        /\ \A k \in DOMAIN SentUrls :
              /\ Contains(SentUrls[k], LoweredCity)
              /\ \A i \in DOMAIN SentUrls[k] : SentUrls[k][i] \notin UpperChars

C6_Witness ==
    /\ InFind
    /\ args.city = <<"M", "u">>
    /\ Len(SentUrls) = 3
    /\ Contains(SentUrls[3], <<"m", "u", "/", "m", "u">>)

(* C7 as stated: every URL pattern sent to the extraction backend ends       *)
(* with "/*".                                                                *)
C7_AsStated ==
    (InFind \/ InTrends) => \A k \in DOMAIN SentUrls : EndsWithWildcard(SentUrls[k])

(* C7 amended: the trends URL and the first two URLs of find_properties end  *)
(* with "/*"; the third URL of find_properties ends with the lower-cased     *)
(* city, so it ends with "/*" only when that city is "*" or ends with "/*".  *)
C7_WildcardSuffix ==
    /\ InTrends => EndsWithWildcard(SentUrls[1])
    /\ InFind =>
          /\ EndsWithWildcard(SentUrls[1])
          /\ EndsWithWildcard(SentUrls[2])
          /\ EndsWithWildcard(SentUrls[3]) <=>
                (LoweredCity = <<"*">> \/ EndsWithWildcard(LoweredCity))

C7_Witness ==
    /\ InFind
    /\ args.city = <<"M", "u">>
    /\ EndsWithWildcard(SentUrls[2])
    /\ ~EndsWithWildcard(SentUrls[3])

(* C8: after a reply with truthy success whose data holds the record list    *)
(* under the schema's key, the summarizer receives exactly that list.        *)
C8_RecordsPreserved ==
    /\ (InFind /\ TruthySuccess /\ HasData
               /\ "properties" \in DOMAIN extract_reply.d.data) =>
          /\ Cardinality(RunCalls) = 1
          /\ out.calls[2].prompt.records = extract_reply.d.data.properties
    /\ (InTrends /\ TruthySuccess /\ HasData
                 /\ "locations" \in DOMAIN extract_reply.d.data) =>
          /\ Cardinality(RunCalls) = 1
          /\ out.calls[2].prompt.records = extract_reply.d.data.locations

C8_Witness ==
    /\ InFind
    /\ TruthySuccess /\ HasData
    /\ extract_reply.d.data = [properties |-> <<"r2", "r1">>]
    /\ out.calls[2].prompt.records = <<"r2", "r1">>

(* C9: after a reply that lacks a truthy success indicator,                  *)
(* get_location_trends returns "No price trends data available" without      *)
(* calling the summarizer, while find_properties raises no error for it and  *)
(* has the empty selection summarized.                                       *)
C9_NonSuccessSurfacing ==
    /\ (InTrends /\ LacksTruthySuccess) =>
          /\ out.returned
          /\ out.value = "No price trends data available"
          /\ CallFns = <<"extract">>
    /\ (InFind /\ LacksTruthySuccess) =>
          /\ out.raised \notin {"KeyError", "ExtractError"}
          /\ CallFns = <<"extract", "run">>
          /\ out.calls[2].prompt.records = <<>>

C9_Witness ==
    /\ InTrends
    /\ extract_reply.kind = "nondict"
    /\ out.returned
    /\ out.value = "No price trends data available"
    /\ RunCalls = {}

---------------------------------------------------------------------------
(* Session properties, checked under SessionSpec *)

KeyInputMissing(w) == w.firecrawl_key = "" \/ w.openai_key = ""

HasAgent(ss) == "property_agent" \in DOMAIN ss

(* C3 as stated: in any rerun of main in which a key input is empty, the     *)
(* "enter your API keys" prompt is shown and no external call is made.       *)
C3_AsStated ==
    (op = "main" /\ KeyInputMissing(widgets)) =>
        (shown = {"warning"} /\ out.calls = <<>>)

(* C3 amended: a rerun of main in which a key input is empty shows the       *)
(* prompt and makes no external call provided the session holds no agent     *)
(* from an earlier rerun; when it holds one, the page is rendered whatever   *)
(* the key inputs are.                                                       *)
C3_BlockedUntilAgent ==
    [][ /\ (KeyInputMissing(widgets') /\ ~HasAgent(session_state)) =>
              /\ shown' = {"warning"}
              /\ out'.calls = <<>>
              /\ ~HasAgent(session_state')
        /\ HasAgent(session_state) => "page" \in shown' ]_vars

C3_Witness ==
    /\ op = "main"
    /\ widgets.firecrawl_key = "key-a" /\ widgets.openai_key = ""
    /\ ~HasAgent(session_state)
    /\ shown = {"warning"}
    /\ out.calls = <<>>

(* C10: the agent is constructed at most once per session, on the first      *)
(* rerun in which both key inputs are non-empty and from the values of that  *)
(* rerun; no later rerun replaces or changes it, and every external call of  *)
(* a search carries the agent's credentials and model id.                    *)
C10_AgentConstructedOnce ==
    [][ /\ HasAgent(session_state) =>
              /\ HasAgent(session_state')
              /\ session_state'.property_agent = session_state.property_agent
        /\ (~HasAgent(session_state) /\ HasAgent(session_state')) =>
              /\ ~KeyInputMissing(widgets')
              /\ session_state'.property_agent =
                    [agent |-> [model |-> [id |-> widgets'.model_id,
                                           api_key |-> widgets'.openai_key]],
                     firecrawl |-> [api_key |-> widgets'.firecrawl_key]]
        /\ (~HasAgent(session_state) /\ ~KeyInputMissing(widgets')) =>
              HasAgent(session_state')
        /\ \A i \in DOMAIN out'.calls :
              /\ HasAgent(session_state')
              /\ out'.calls[i].fn = "extract" =>
                    out'.calls[i].api_key = session_state'.property_agent.firecrawl.api_key
              /\ out'.calls[i].fn = "run" =>
                    /\ out'.calls[i].api_key =
                          session_state'.property_agent.agent.model.api_key
                    /\ out'.calls[i].model = session_state'.property_agent.agent.model.id ]_vars

C10_Witness ==
    /\ op = "main"
    /\ HasAgent(session_state)
    /\ Len(out.calls) = 2
    /\ widgets.openai_key = ""
    /\ session_state.firecrawl_key # session_state.property_agent.firecrawl.api_key
    /\ session_state.model_id # session_state.property_agent.agent.model.id
    /\ out.calls[1].api_key = session_state.property_agent.firecrawl.api_key
    /\ out.calls[2].model = session_state.property_agent.agent.model.id

=============================================================================
